---------------------------- MODULE Spec2Model ----------------------------
(***************************************************************************)
(* Camera orchestration of the Airspace globe viewer: CameraController     *)
(* (selection / focus / restore effects, the per-frame animation tick and  *)
(* the geolocation bootstrap) together with the geodetic math it uses.     *)
(*                                                                         *)
(* Numbers: the source computes in IEEE doubles.  Lengths are modelled in  *)
(* fixed point, Scale units per 1.0; angles in Deg units per degree; the   *)
(* animation progress in ProgDen units per 1.0.                            *)
(***************************************************************************)
EXTENDS Integers, Sequences, FiniteSets, TLC

\* ------------------------------------------------------------------------
\* Bounds of the model
\* ------------------------------------------------------------------------
\* number of user observations (store changes) explored
MaxEvents == 2
\* the same, in the runs without focus requests
MaxSelEvents == 4
\* the same, in the runs without selections
MaxFocusEvents == 3
\* largest value of the restore counter explored
MaxRestore == 2
\* number of observations in the runs in which the registries change
MaxDataEvents == 3
\* number of observations and camera replacements in the runs around the
\* geolocation bootstrap
MaxBootEvents == 2
\* number of observations and Shift key events in the runs with the keyboard
MaxKeyEvents == 3
\* number of observations in the runs with searches and airport selections
MaxSearchEvents == 3
\* number of observations in the runs with the airports layer and the
\* loading overlay
MaxLoadEvents == 1
\* number of observations in the runs with one aircraft, searches and restores
MaxReplayEvents == 3
\* number of key events in the runs of InputManager
MaxInputEvents == 4
\* last clock tick (of 150 ms) in the runs of InputManager
MaxClock == 3
\* number of updateLODState calls on one state
MaxLodCalls == 3

\* ------------------------------------------------------------------------
\* Number representation
\* ------------------------------------------------------------------------
\* fixed-point units per 1.0 of length
Scale == 1000
\* angle units per degree (resolution 1e-5 degree)
Deg == 100000
\* progress units per 1.0 of animationProgress
ProgDen == 2

\* ------------------------------------------------------------------------
\* Program constants
\* ------------------------------------------------------------------------
MIN_CAMERA_DISTANCE == 1120
\* <OrbitControls minDistance={0.15} maxDistance={5}>
ORBIT_MIN_DISTANCE == 150
ORBIT_MAX_DISTANCE == 5000
DEFAULT_CAMERA_DISTANCE == 2500
CITY_ZOOM_DISTANCE == 1150
\* |a - b| < 0.0001 degrees, in angle units
FOCUS_EPSILON == 10
DEFAULT_LOCATION == [lat |-> 4071280, lon |-> -7400600]

\* ------------------------------------------------------------------------
\* Arithmetic helpers
\* ------------------------------------------------------------------------
\* `const v = x; ... F(v)': x is evaluated once, then F at its value
Bind(x, F(_)) == CHOOSE y \in { F(v) : v \in {x} } : TRUE

Abs(x) == IF x < 0 THEN -x ELSE x

Min(a, b) == IF a < b THEN a ELSE b

Max(a, b) == IF a > b THEN a ELSE b

\* a / b rounded to the nearest integer (b > 0)
RDiv(a, b) == (2 * a + b) \div (2 * b)

\* product of two fixed-point numbers
FMul(a, b) == RDiv(a * b, Scale)

RECURSIVE SqrtIter(_, _, _)
SqrtIter(n, lo, hi) ==
    IF lo >= hi THEN lo
    ELSE LET mid == (lo + hi + 1) \div 2
         IN  IF mid * mid <= n THEN SqrtIter(n, mid, hi)
                               ELSE SqrtIter(n, lo, mid - 1)

\* Math.sqrt on integers, rounded to the nearest integer
ISqrt(n) ==
    Bind(SqrtIter(n, 0, 46340), LAMBDA f : IF n - f * f > f THEN f + 1 ELSE f)

\* ------------------------------------------------------------------------
\* THREE.Vector3
\* ------------------------------------------------------------------------
Zero == <<0, 0, 0>>

VAdd(a, b) == <<a[1] + b[1], a[2] + b[2], a[3] + b[3]>>

VSub(a, b) == <<a[1] - b[1], a[2] - b[2], a[3] - b[3]>>

\* Vector3.multiplyScalar with a fixed-point scalar
VScale(a, s) == <<FMul(a[1], s), FMul(a[2], s), FMul(a[3], s)>>

\* Vector3.dot (fixed point)
Dot(a, b) == RDiv(a[1] * b[1] + a[2] * b[2] + a[3] * b[3], Scale)

\* Vector3.crossVectors (fixed point)
Cross(a, b) ==
    << RDiv(a[2] * b[3] - a[3] * b[2], Scale),
       RDiv(a[3] * b[1] - a[1] * b[3], Scale),
       RDiv(a[1] * b[2] - a[2] * b[1], Scale) >>

LengthSq(a) == a[1] * a[1] + a[2] * a[2] + a[3] * a[3]

\* Vector3.length
Length(a) == ISqrt(LengthSq(a))

\* Vector3.normalize: divideScalar(length() || 1)
Normalize(a) ==
    Bind(<<a, Length(a)>>, LAMBDA p :
        IF p[2] = 0 THEN p[1]
        ELSE << RDiv(p[1][1] * Scale, p[2]), RDiv(p[1][2] * Scale, p[2]),
                RDiv(p[1][3] * Scale, p[2]) >>)

\* |x| * len / l rounded away from zero (l > 0)
OutDiv(x, len, l) ==
    IF x >= 0 THEN (x * len + l - 1) \div l ELSE -((-x * len + l - 1) \div l)

\* |x| * len / l rounded toward zero (l > 0)
InDiv(x, len, l) ==
    IF x >= 0 THEN (x * len) \div l ELSE -((-x * len) \div l)

\* a rescaled to length len (the zero vector stays zero), rounded so that it is
\* not shorter than len
AtLeastLength(a, len) ==
    Bind(SqrtIter(LengthSq(a), 0, 46340), LAMBDA l :
        IF l = 0 THEN a
        ELSE <<OutDiv(a[1], len, l), OutDiv(a[2], len, l), OutDiv(a[3], len, l)>>)

\* a (non-zero) rescaled to length len, rounded so that it is not longer than len
AtMostLength(a, len) ==
    Bind(SqrtIter(LengthSq(a), 0, 46340) + 1, LAMBDA l :
        <<InDiv(a[1], len, l), InDiv(a[2], len, l), InDiv(a[3], len, l)>>)

\* Vector3.lerpVectors(v1, v2, num / den)
LerpVectors(v1, v2, num, den) ==
    << v1[1] + RDiv((v2[1] - v1[1]) * num, den),
       v1[2] + RDiv((v2[2] - v1[2]) * num, den),
       v1[3] + RDiv((v2[3] - v1[3]) * num, den) >>

\* ------------------------------------------------------------------------
\* Math.sin / Math.cos on the angles the model's coordinates produce,
\* tabulated to 1e-3 (keys in 1e-3 degree)
\* ------------------------------------------------------------------------
SinTable ==
    0 :> 0 @@ 10000 :> 174 @@ 30000 :> 500 @@ 40713 :> 652 @@
    49287 :> 758 @@ 60000 :> 866 @@ 80000 :> 985 @@ 90000 :> 1000 @@
    100000 :> 985 @@ 105994 :> 961 @@ 120000 :> 866 @@ 130713 :> 758 @@
    139287 :> 652 @@ 150000 :> 500 @@ 170000 :> 174 @@ 180000 :> 0 @@
    195994 :> -276 @@ 200000 :> -342 @@ 210000 :> -500 @@
    270000 :> -1000 @@ 290000 :> -940 @@ 330000 :> -500 @@
    350000 :> -174

\* angle (in Deg units) to its table key
AngleKey(a) == ((a + 50) \div 100) % 360000

Sin(a) == SinTable[AngleKey(a)]

Cos(a) == SinTable[AngleKey(a + 90 * Deg)]


\* ------------------------------------------------------------------------
\* Geodetic math (CameraController module functions)
\* ------------------------------------------------------------------------
\* latLonToVector3(lat, lon, alt): r = 1 + alt * 0.0000005,
\* phi = 90 - lat, theta = lon + 180
latLonToVector3(lat, lon, alt) ==
    LET r     == Scale + RDiv(alt * Scale, 2000000)
        phi   == 90 * Deg - lat
        theta == lon + 180 * Deg
    IN  << -FMul(FMul(r, Sin(phi)), Cos(theta)),
           FMul(r, Cos(phi)),
           FMul(FMul(r, Sin(phi)), Sin(theta)) >>

\* getAircraftForwardVector(lat, lon, heading)
getAircraftForwardVector(lat, lon, heading) ==
    LET lonPi == lon + 180 * Deg
        h     == heading + 90 * Deg
    IN  Bind(Normalize(latLonToVector3(lat, lon, 0)), LAMBDA up :
        Bind(Normalize(<< FMul(Sin(lat), Cos(lonPi)),
                          Cos(lat),
                          -FMul(Sin(lat), Sin(lonPi)) >>), LAMBDA north0 :
        Bind(Normalize(VSub(north0, VScale(up, Dot(north0, up)))), LAMBDA north1 :
        Bind(Normalize(Cross(up, north1)), LAMBDA east :
        Bind(Normalize(Cross(east, up)), LAMBDA north :
            Normalize(VAdd(VScale(north, Cos(h)), VScale(east, Sin(h)))))))))

\* viewDistance = max(0.08, min(0.25, pathLength3D * 1.5 + 0.05)) with
\* pathLength3D = ((speed / 60) / 60 * 25) * 0.017
ViewDistance(speed) ==
    Max(80, Min(250, RDiv(speed * 1275, 7200) + 50))

\* target pose of the aircraft selection animation: behind and above
AircraftFraming(p) ==
    LET viewDistance == ViewDistance(p.speed)
    IN  Bind(latLonToVector3(p.latitude, p.longitude, p.altitude), LAMBDA aircraftPos :
        Bind(getAircraftForwardVector(p.latitude, p.longitude, p.heading), LAMBDA forward :
        Bind(Normalize(aircraftPos), LAMBDA up :
        Bind(VAdd(VScale(up, FMul(viewDistance, 600)),
                  VScale(forward, -FMul(viewDistance, 800))), LAMBDA cameraOffset :
            [pos |-> VAdd(aircraftPos, cameraOffset), look |-> aircraftPos]))))

\* position at `distance` from the centre along the direction of (lat, lon, alt),
\* looking at the centre: the airport, focus and bootstrap framing
DirectionFraming(lat, lon, alt, distance) ==
    Bind(Normalize(latLonToVector3(lat, lon, alt)), LAMBDA cameraDirection :
        [pos |-> VScale(cameraDirection, distance), look |-> Zero])

\* ------------------------------------------------------------------------
\* Entities and requests the environment can present
\* ------------------------------------------------------------------------
NULL == "null"

AircraftIds == {"A", "B"}

AirportIds == {"X"}

\* state.aircraft[].position of the aircraft the store can hold
AircraftData ==
    "A" :> [latitude |-> 10 * Deg, longitude |-> 20 * Deg, altitude |-> 30000,
            heading |-> 90 * Deg, speed |-> 500]
    @@
    "B" :> [latitude |-> -30 * Deg, longitude |-> -90 * Deg, altitude |-> 0,
            heading |-> 0, speed |-> 0]

\* state.airports[] entries (icao, lat, lon)
AirportData ==
    "X" :> [lat |-> 30 * Deg, lon |-> -90 * Deg]

\* focus requests: three requests each within the dedupe epsilon of the next
\* (the first and the third are not), and a distant one on the longitude seam
FocusInputs ==
    { [lat |-> 0, lon |-> 0, alt |-> 0],
      [lat |-> 6, lon |-> -6, alt |-> 0],
      [lat |-> 12, lon |-> -12, alt |-> 0],
      [lat |-> 60 * Deg, lon |-> 180 * Deg, alt |-> 0] }

\* a focus request whose latitude (100 degrees) is outside [-90, 90]
InvalidFocusInputs ==
    { [lat |-> 100 * Deg, lon |-> 0, alt |-> 0] }

\* target pose of the selection animation of each aircraft
AircraftPose == [i \in AircraftIds |-> AircraftFraming(AircraftData[i])]

\* target pose of the selection animation of each airport: zoomed in close
AirportPose ==
    [i \in AirportIds |->
        DirectionFraming(AirportData[i].lat, AirportData[i].lon, 0, CITY_ZOOM_DISTANCE)]

\* targetPoint.clone().normalize() of each focus request
FocusDirection ==
    [l \in FocusInputs \cup InvalidFocusInputs |->
        Normalize(latLonToVector3(l.lat, l.lon, l.alt))]

NoSelection == [type |-> "none", id |-> NULL]

Selections ==
    {NoSelection}
    \cup { [type |-> "aircraft", id |-> i] : i \in AircraftIds }
    \cup { [type |-> "airport", id |-> i] : i \in AirportIds }

\* selectedAircraftId / selectedAirportId (selectedId is the alias of the first)
SelectedAircraftId(sel) == IF sel.type = "aircraft" THEN sel.id ELSE NULL

SelectedAirportId(sel) == IF sel.type = "airport" THEN sel.id ELSE NULL

\* ------------------------------------------------------------------------
\* InputManager (keyboard input): handlers
\* ------------------------------------------------------------------------
\* the keys explored (e.key, letters in either case)
ModifierKeys == {"Shift", "Control", "Alt"}

MovementKeys == {"w", "s", "a", "d"}

Keys == ModifierKeys \cup MovementKeys \cup {"Tab", "q", "e"}

\* e.target: a text input (HTMLInputElement / HTMLTextAreaElement) or not
Targets == {"page", "input"}

\* tabPressTime === null
NoTime == -1

\* the 300 ms of the Tab hold timer, in clock ticks of 150 ms
HoldTicks == 2

\* the InputManager after construction
InitialInputManager ==
    [state |-> [moveUp |-> FALSE, moveDown |-> FALSE, moveLeft |-> FALSE,
                moveRight |-> FALSE, zoomIn |-> FALSE, zoomOut |-> FALSE,
                yawFlatten |-> FALSE, yawSteepen |-> FALSE, shiftHeld |-> FALSE,
                ctrlHeld |-> FALSE, altHeld |-> FALSE],
     tabPressTime |-> NoTime,
     tabHoldTimeout |-> "null",
     shiftUsedWithOtherKey |-> FALSE]

\* the InputState flag a movement key sets
MoveFlag(key) ==
    CASE key = "w" -> "moveUp" [] key = "s" -> "moveDown"
      [] key = "a" -> "moveLeft" [] key = "d" -> "moveRight"

\* the snap action a movement key dispatches
SnapAction(key) ==
    CASE key = "w" -> "snap_up" [] key = "s" -> "snap_down"
      [] key = "a" -> "snap_left" [] key = "d" -> "snap_right"

\* handleKeyDown(e): the manager after the event and the actions dispatched
handleKeyDown(m, key, target, repeat, now) ==
    IF target = "input" THEN [im |-> m, out |-> <<>>]
    ELSE IF key = "Shift" THEN [im |-> [m EXCEPT !.state.shiftHeld = TRUE], out |-> <<>>]
    ELSE IF key = "Control" THEN [im |-> [m EXCEPT !.state.ctrlHeld = TRUE], out |-> <<>>]
    ELSE IF key = "Alt" THEN [im |-> [m EXCEPT !.state.altHeld = TRUE], out |-> <<>>]
    ELSE LET m1 == IF m.state.shiftHeld
                   THEN [m EXCEPT !.shiftUsedWithOtherKey = TRUE] ELSE m
             shift == m.state.shiftHeld
         IN  IF key = "Tab" /\ ~shift /\ ~m.state.ctrlHeld /\ ~m.state.altHeld
             THEN IF ~repeat /\ m1.tabPressTime = NoTime
                  THEN [im |-> [m1 EXCEPT !.tabPressTime = now,
                                          !.tabHoldTimeout = "pending"],
                        out |-> <<>>]
                  ELSE [im |-> m1, out |-> <<>>]
             ELSE IF key = "q"
             THEN [im |-> [m1 EXCEPT !.state.yawFlatten = TRUE],
                   out |-> IF repeat THEN <<>> ELSE <<"view_prev">>]
             ELSE IF key = "e"
             THEN [im |-> [m1 EXCEPT !.state.yawSteepen = TRUE],
                   out |-> IF repeat THEN <<>> ELSE <<"view_next">>]
             ELSE IF key \in MovementKeys
             THEN IF shift /\ key = "w"
                  THEN [im |-> [m1 EXCEPT !.state.zoomIn = TRUE], out |-> <<>>]
                  ELSE IF shift /\ key = "s"
                  THEN [im |-> [m1 EXCEPT !.state.zoomOut = TRUE], out |-> <<>>]
                  ELSE IF shift THEN [im |-> m1, out |-> <<>>]
                  ELSE [im |-> [m1 EXCEPT !.state[MoveFlag(key)] = TRUE],
                        out |-> IF repeat THEN <<>> ELSE <<SnapAction(key)>>]
             ELSE [im |-> m1, out |-> <<>>]

\* handleKeyUp(e)
handleKeyUp(m, key, target, now) ==
    IF target = "input" THEN [im |-> m, out |-> <<>>]
    ELSE IF key = "Shift"
    THEN [im |-> [m EXCEPT !.state.shiftHeld = FALSE, !.shiftUsedWithOtherKey = FALSE],
          out |-> IF ~m.shiftUsedWithOtherKey /\ ~m.state.ctrlHeld /\ ~m.state.altHeld
                  THEN <<"snap_toggle">> ELSE <<>>]
    ELSE IF key = "Control" THEN [im |-> [m EXCEPT !.state.ctrlHeld = FALSE], out |-> <<>>]
    ELSE IF key = "Alt" THEN [im |-> [m EXCEPT !.state.altHeld = FALSE], out |-> <<>>]
    ELSE IF key = "Tab"
    THEN [im |-> [m EXCEPT !.tabHoldTimeout = "null", !.tabPressTime = NoTime],
          out |-> IF m.tabPressTime = NoTime THEN <<>>
                  ELSE IF now - m.tabPressTime < HoldTicks THEN <<"filter_cycle">>
                  ELSE <<"filter_menu_close">>]
    ELSE IF key = "q" THEN [im |-> [m EXCEPT !.state.yawFlatten = FALSE], out |-> <<>>]
    ELSE IF key = "e" THEN [im |-> [m EXCEPT !.state.yawSteepen = FALSE], out |-> <<>>]
    ELSE IF key = "w"
    THEN [im |-> [m EXCEPT !.state.moveUp = FALSE, !.state.zoomIn = FALSE], out |-> <<>>]
    ELSE IF key = "s"
    THEN [im |-> [m EXCEPT !.state.moveDown = FALSE, !.state.zoomOut = FALSE], out |-> <<>>]
    ELSE [im |-> [m EXCEPT !.state[MoveFlag(key)] = FALSE], out |-> <<>>]

\* the filter actions among the dispatched ones
FilterActions(out) ==
    SelectSeq(out, LAMBDA a : a \in {"filter_cycle", "filter_menu_open", "filter_menu_close"})

\* ------------------------------------------------------------------------
\* LOD utilities (utils/lod.ts)
\* ------------------------------------------------------------------------
\* opacity and visibility 1.0
OpScale == 10000

createLODState == [currentOpacity |-> 0, targetOpacity |-> OpScale, hasAppeared |-> FALSE]

\* variant: the smoothing factor is not capped
SmoothFactorUncapped(delta) == delta * 4

\* Math.min(delta * 4, 0.25), in thousandths, delta in milliseconds
SmoothFactor(delta) == Min(delta * 4, 250)

\* updateLODState(state, viewVisibility, delta, isHighlighted): the state
\* after the call and the value returned
updateLODState(state, viewVisibility, delta, isHighlighted) ==
    LET target  == IF isHighlighted THEN OpScale ELSE viewVisibility
        start   == IF state.hasAppeared THEN state.currentOpacity ELSE 0
        moved   == start + RDiv((target - start) * SmoothFactor(delta), 1000)
        opacity == Max(0, Min(OpScale, moved))
    IN  [state |-> [currentOpacity |-> opacity, targetOpacity |-> target,
                    hasAppeared |-> TRUE],
         result |-> [opacity |-> opacity, scale |-> opacity,
                     shouldRender |-> opacity > OpScale \div 100]]

\* ------------------------------------------------------------------------
\* LoadingOverlay (app/page.tsx)
\* ------------------------------------------------------------------------
\* the intro phases, in the order of their timers
IntroPhases == <<"borders", "airports", "aircraft", "complete">>

\* INTRO.STAGES.length
StageCount == 3

\* the overlay when it mounts
InitialOverlay ==
    [locationReady |-> FALSE, stageIndex |-> 0, progress |-> 0,
     displayProgress |-> 0, timers |-> {}, introPhases |-> <<>>]

\* a render of the overlay with the store's locationReady and the effects it
\* runs: when locationReady has become true the stage timer and the progress
\* interval are cleared and the four intro timers are set
RenderOverlay(o, ready) ==
    [o EXCEPT !.locationReady = ready,
              !.displayProgress = IF ready THEN 100 ELSE o.progress,
              !.timers = IF ready /\ ~o.locationReady
                         THEN {IntroPhases[i] : i \in DOMAIN IntroPhases}
                         ELSE @]

\* variant: the new progress is not held at the previous one
NextProgressRaw(prev, newProgress) == Min(newProgress, 99)

\* Math.min(Math.max(newProgress, prev), 99)
NextProgress(prev, newProgress) == Min(Max(newProgress, prev), 99)

\* ------------------------------------------------------------------------
\* State
\* ------------------------------------------------------------------------
VARIABLES
    selectedEntity,     \* store: gameState.selectedEntity
    focusLocation,      \* store: gameState.focusLocation, <<>> for null
    restoreCameraFlag,  \* store: gameState.restoreCameraFlag
    initialLocation,    \* useState initialLocation, <<>> for null
    locationReady,      \* store: locationReady
    c,                  \* camera.position, controls.target and the refs of CameraController
    events,             \* number of budgeted external events so far
    g,                  \* history: what the last observation did (not program state)
    airportsLayer,      \* AirportsLayer: mounted, the locationReady its effect last ran
                        \* with, and the number of fetchAirports() calls
    keyboard,           \* environment of InputManager: the keys held down, the clock,
                        \* the number of key events so far, and history of the holds
    inputManager,       \* InputManager: state, tabPressTime, tabHoldTimeout,
                        \* shiftUsedWithOtherKey
    dispatched,         \* the actions InputManager dispatched in the last step
    lod,                \* an LODState, the arguments and the result of the last
                        \* updateLODState call on it, and the number of calls
    overlay             \* LoadingOverlay: the locationReady it rendered with, stageIndex,
                        \* progress, the pending intro timers and the phases set

vars == <<selectedEntity, focusLocation, restoreCameraFlag, initialLocation,
          locationReady, c, events, g, airportsLayer, keyboard, inputManager,
          dispatched, lod, overlay>>

\* the state of InputManager and of its environment
input == <<keyboard, inputManager, dispatched>>

\* the state of the components other than CameraController
others == <<airportsLayer, input, lod, overlay>>

\* the state of CameraController and of what it reads
controller == <<selectedEntity, focusLocation, restoreCameraFlag, initialLocation,
                locationReady, c, events, g>>

store == <<selectedEntity, focusLocation, restoreCameraFlag, initialLocation,
           locationReady>>

\* ------------------------------------------------------------------------
\* CameraController: helpers shared by the effects
\* ------------------------------------------------------------------------
\* isAnimating = true; isReturningToEarth = r; animationProgress = 0;
\* startPosition.copy(camera.position); startTarget.copy(controls.target)
StartAnimation(r, returning) ==
    [r EXCEPT !.isAnimating = TRUE,
              !.isReturningToEarth = returning,
              !.animationProgress = 0,
              !.startPosition = r.position,
              !.startTarget = r.target]

\* targetCameraPos.copy(pose.pos); targetLookAt.copy(pose.look)
SetTarget(r, pose) ==
    [r EXCEPT !.targetCameraPos = pose.pos, !.targetLookAt = pose.look]

\* savedCameraPosition.copy(camera.position); savedCameraTarget.copy(controls.target)
SaveCamera(r) ==
    [r EXCEPT !.savedCameraPosition = r.position, !.savedCameraTarget = r.target]

\* savedCameraPosition.lengthSq() > 0
HasSaved(r) == LengthSq(r.savedCameraPosition) > 0

SavedPose(r) == [pos |-> r.savedCameraPosition, look |-> r.savedCameraTarget]

\* controlsRef.current.update() with no pointer input pending: OrbitControls
\* keeps the camera between minDistance and maxDistance from its target, along
\* the direction it has (straight above the target when it sits on it)
OrbitUpdate(r) ==
    Bind(VSub(r.position, r.target), LAMBDA offset :
    Bind(Length(offset), LAMBDA radius :
    Bind(IF radius = 0 THEN <<0, Scale, 0>> ELSE offset, LAMBDA dir :
        IF radius < ORBIT_MIN_DISTANCE
        THEN [r EXCEPT !.position = VAdd(r.target, AtLeastLength(dir, ORBIT_MIN_DISTANCE))]
        ELSE IF radius > ORBIT_MAX_DISTANCE
        THEN [r EXCEPT !.position = VAdd(r.target, AtMostLength(dir, ORBIT_MAX_DISTANCE))]
        ELSE r)))

\* ------------------------------------------------------------------------
\* Effect: set the initial camera position once the location is determined
\* ------------------------------------------------------------------------
\* variant: the initial position is taken at the default camera distance
BootstrapPoseFarOut(loc) == DirectionFraming(loc.lat, loc.lon, 0, DEFAULT_CAMERA_DISTANCE)

\* cameraDirection.clone().multiplyScalar(CITY_ZOOM_DISTANCE), looking at the centre
BootstrapPose(loc) == DirectionFraming(loc.lat, loc.lon, 0, CITY_ZOOM_DISTANCE)

BootstrapEffect(r, loc) ==
    IF loc = <<>> THEN r
    ELSE Bind([r EXCEPT !.position = BootstrapPose(loc[1]).pos,
                        !.target = Zero,
                        !.currentTarget = Zero], OrbitUpdate)

\* ------------------------------------------------------------------------
\* Effect: focus on a location
\* ------------------------------------------------------------------------
\* variant: no request is recognised as a repetition
FocusNeverDuplicate(r, f) == FALSE

\* "Skip if same location"
FocusIsDuplicate(r, f) ==
    /\ r.prevFocusLocation # <<>>
    /\ Abs(r.prevFocusLocation[1].lat - f.lat) < FOCUS_EPSILON
    /\ Abs(r.prevFocusLocation[1].lon - f.lon) < FOCUS_EPSILON

\* the effect gets past its two early returns
FocusAccepted(r, f) == f # <<>> /\ ~FocusIsDuplicate(r, f[1])

\* "Save camera position on FIRST focus"
FocusShouldSave(r, selectedId) == ~r.hasSavedForFocus /\ selectedId = NULL

FocusSaves(r, f, selectedId) == FocusAccepted(r, f) /\ FocusShouldSave(r, selectedId)

FocusStarts(r, f, selectedId) == FocusAccepted(r, f) /\ selectedId = NULL

\* variant: the focus animation zooms in to the city framing distance
FocusPoseZoom(r, f) ==
    [pos |-> VScale(FocusDirection[f], CITY_ZOOM_DISTANCE), look |-> Zero]

\* same distance from the centre, along the direction of the request
FocusPose(r, f) ==
    Bind(<<FocusDirection[f], Length(r.position)>>, LAMBDA p :
        [pos |-> VScale(p[1], p[2]), look |-> Zero])

FocusEffect(r, f, selectedId) ==
    IF ~FocusAccepted(r, f) THEN r
    ELSE Bind(IF FocusShouldSave(r, selectedId)
              THEN [SaveCamera(r) EXCEPT !.hasSavedForFocus = TRUE]
              ELSE r, LAMBDA r1 :
         Bind([r1 EXCEPT !.prevFocusLocation =
                             <<[lat |-> f[1].lat, lon |-> f[1].lon]>>], LAMBDA r2 :
             IF selectedId # NULL THEN r2
             ELSE SetTarget(StartAnimation(r2, FALSE), FocusPose(r2, f[1]))))

\* ------------------------------------------------------------------------
\* Effect: restore the camera to the saved position
\* ------------------------------------------------------------------------
\* variant: the token is not compared with the value last acted on
RestoreObservedAlways(r, flag) == flag > 0

\* the token is set and differs from the value last acted on
RestoreObserved(r, flag) == flag > 0 /\ flag # r.prevRestoreFlag

\* variant: a selection does not hold the restore back
RestoreNeverBlocked(selectedId, selectedAirportId) == FALSE

\* "Don't restore if we're tracking something"
RestoreBlocked(selectedId, selectedAirportId) ==
    selectedId # NULL \/ selectedAirportId # NULL

RestoreStarts(r, flag, selectedId, selectedAirportId) ==
    /\ RestoreObserved(r, flag)
    /\ ~RestoreBlocked(selectedId, selectedAirportId)
    /\ HasSaved(r)

\* variant: the restore does not look whether a pose is saved
RestoreEffectUnguarded(r, flag, selectedId, selectedAirportId) ==
    IF ~RestoreObserved(r, flag) THEN r
    ELSE Bind([r EXCEPT !.prevRestoreFlag = flag,
                        !.prevFocusLocation = <<>>,
                        !.hasSavedForFocus = FALSE], LAMBDA r1 :
             IF RestoreBlocked(selectedId, selectedAirportId) THEN r1
             ELSE SetTarget(StartAnimation(r1, TRUE), SavedPose(r1)))

RestoreEffect(r, flag, selectedId, selectedAirportId) ==
    IF ~RestoreObserved(r, flag) THEN r
    ELSE Bind([r EXCEPT !.prevRestoreFlag = flag,
                        !.prevFocusLocation = <<>>,
                        !.hasSavedForFocus = FALSE], LAMBDA r1 :
             IF RestoreBlocked(selectedId, selectedAirportId) THEN r1
             ELSE IF HasSaved(r1)
                  THEN SetTarget(StartAnimation(r1, TRUE), SavedPose(r1))
                  ELSE r1)

\* ------------------------------------------------------------------------
\* Effect: airport selection and deselection
\* ------------------------------------------------------------------------
\* a newly selected airport that airports.find() returns (found)
AirportSelects(r, selectedAirportId, found) ==
    /\ selectedAirportId # NULL
    /\ selectedAirportId # r.prevSelectedAirportId
    /\ found

\* "Save camera state if not already tracking something"
AirportShouldSave(r) == r.prevSelectedId = NULL /\ r.prevSelectedAirportId = NULL

\* "Handle deselection - return to previous position"
AirportDeselects(r, selectedAirportId, selectedId) ==
    /\ selectedAirportId = NULL
    /\ r.prevSelectedAirportId # NULL
    /\ selectedId = NULL

AirportEffect(r, selectedAirportId, found, selectedId) ==
    Bind(IF AirportSelects(r, selectedAirportId, found)
         THEN SetTarget(StartAnimation(IF AirportShouldSave(r) THEN SaveCamera(r) ELSE r,
                                       FALSE),
                        AirportPose[selectedAirportId])
         ELSE r, LAMBDA r1 :
    Bind(IF AirportDeselects(r1, selectedAirportId, selectedId)
         THEN Bind(StartAnimation(r1, TRUE), LAMBDA a :
                  IF HasSaved(a) THEN SetTarget(a, SavedPose(a)) ELSE a)
         ELSE r1, LAMBDA r2 :
        [r2 EXCEPT !.prevSelectedAirportId = selectedAirportId]))

\* ------------------------------------------------------------------------
\* Effect: aircraft selection and deselection
\* ------------------------------------------------------------------------
\* a newly selected aircraft that aircraft.find() returns (found)
AircraftSelects(r, selectedId, found) ==
    /\ selectedId # NULL
    /\ selectedId # r.prevSelectedId
    /\ found

\* variant: every aircraft selection saves
AircraftSavesAlways(r) == TRUE

\* "Only save if we weren't already tracking something (prevSelectedId is null)"
AircraftShouldSave(r) == r.prevSelectedId = NULL

AircraftDeselects(r, selectedId) == selectedId = NULL /\ r.prevSelectedId # NULL

\* no saved position: pull back along the current direction
FallbackPose(r) ==
    [pos |-> VScale(Normalize(r.position), CITY_ZOOM_DISTANCE), look |-> Zero]

\* variant: the deselection ignores the saved position
ReturnPoseIgnoringSaved(r) == FallbackPose(r)

\* target of the return animation of the aircraft deselection
ReturnPose(r) == IF HasSaved(r) THEN SavedPose(r) ELSE FallbackPose(r)

AircraftEffect(r, selectedId, found) ==
    Bind(IF AircraftSelects(r, selectedId, found)
         THEN SetTarget(StartAnimation(IF AircraftShouldSave(r) THEN SaveCamera(r) ELSE r,
                                       FALSE),
                        AircraftPose[selectedId])
         ELSE r, LAMBDA r1 :
    Bind(IF AircraftDeselects(r1, selectedId)
         THEN SetTarget(StartAnimation(r1, TRUE), ReturnPose(r1))
         ELSE r1, LAMBDA r2 :
        [r2 EXCEPT !.prevSelectedId = selectedId]))

\* ------------------------------------------------------------------------
\* useFrame
\* ------------------------------------------------------------------------
\* eased = 1 - (1 - t)^3 with t = min(animationProgress, 1), as num / den
EasedDen == ProgDen * ProgDen * ProgDen

EasedNum(progress) ==
    LET t == Min(progress, ProgDen)
    IN  EasedDen - (ProgDen - t) * (ProgDen - t) * (ProgDen - t)

\* variant: no floor
ClampToFloorNever(p) == p

\* camera.position.normalize().multiplyScalar(MIN_CAMERA_DISTANCE) below the floor
ClampToFloor(p) ==
    IF Length(p) < MIN_CAMERA_DISTANCE
    THEN AtLeastLength(p, MIN_CAMERA_DISTANCE)
    ELSE p

\* variant: the completing frame leaves isReturningToEarth as it is
AnimateKeepsReturning(r, dp) ==
    IF r.isAnimating
    THEN LET progress == r.animationProgress + dp
             num      == EasedNum(progress)
             look     == LerpVectors(r.startTarget, r.targetLookAt, num, EasedDen)
             done     == Min(progress, ProgDen) >= ProgDen
         IN  [r EXCEPT !.animationProgress = progress,
                       !.position = LerpVectors(r.startPosition, r.targetCameraPos,
                                                num, EasedDen),
                       !.currentTarget = look,
                       !.target = look,
                       !.isAnimating = ~done]
    ELSE [r EXCEPT !.position = ClampToFloor(r.position)]

\* the animation / floor part of the frame callback, delta * 1.2 = dp / ProgDen
Animate(r, dp) ==
    IF r.isAnimating
    THEN LET progress == r.animationProgress + dp
             num      == EasedNum(progress)
             look     == LerpVectors(r.startTarget, r.targetLookAt, num, EasedDen)
             done     == Min(progress, ProgDen) >= ProgDen
         IN  [r EXCEPT !.animationProgress = progress,
                       !.position = LerpVectors(r.startPosition, r.targetCameraPos,
                                                num, EasedDen),
                       !.currentTarget = look,
                       !.target = look,
                       !.isAnimating = ~done,
                       !.isReturningToEarth = IF done THEN FALSE ELSE @]
    ELSE [r EXCEPT !.position = ClampToFloor(r.position)]

\* the frame callback: animate or clamp, then controls.update()
Frame(r, dp) == Bind(Animate(r, dp), OrbitUpdate)

\* ------------------------------------------------------------------------
\* History of the last observation (for stating properties; not program state)
\* ------------------------------------------------------------------------
\* what the effects of one commit did, in the order the effects run
EffectLog(r1, r2, r3, r4, runs, loc, f, flag, selectedId, selectedAirportId, acFound, apFound) ==
    (IF runs.bootstrap /\ loc # <<>> THEN <<"snap:bootstrap">> ELSE <<>>)
    \o (IF runs.focus /\ FocusSaves(r1, f, selectedId) THEN <<"save:focus">> ELSE <<>>)
    \o (IF runs.focus /\ FocusStarts(r1, f, selectedId) THEN <<"start:focus">> ELSE <<>>)
    \o (IF runs.restore /\ RestoreStarts(r2, flag, selectedId, selectedAirportId)
        THEN <<"return:restore">> ELSE <<>>)
    \o (IF runs.airport /\ AirportSelects(r3, selectedAirportId, apFound)
        THEN (IF AirportShouldSave(r3) THEN <<"save:airport">> ELSE <<>>)
             \o <<"start:airport">>
        ELSE <<>>)
    \o (IF runs.airport /\ AirportDeselects(r3, selectedAirportId, selectedId)
        THEN (IF HasSaved(r3) THEN <<"return:airport">> ELSE <<"stale:airport">>)
        ELSE <<>>)
    \o (IF runs.aircraft /\ AircraftSelects(r4, selectedId, acFound)
        THEN (IF AircraftShouldSave(r4) THEN <<"save:aircraft">> ELSE <<>>)
             \o <<"start:aircraft">>
        ELSE <<>>)
    \o (IF runs.aircraft /\ AircraftDeselects(r4, selectedId)
        THEN (IF HasSaved(r4) THEN <<"return:aircraft">> ELSE <<"fallback:aircraft">>)
        ELSE <<>>)

Entries(log) == { log[i] : i \in DOMAIN log }

SaveEntries == {"save:focus", "save:airport", "save:aircraft"}

ReturnEntries == {"return:restore", "return:airport", "return:aircraft"}

StartEntries ==
    {"start:focus", "start:airport", "start:aircraft", "stale:airport",
     "fallback:aircraft"} \cup ReturnEntries

\* whether a saved pose is waiting to be returned to, after the entries of log
RECURSIVE SlotAfter(_, _)
SlotAfter(full, log) ==
    IF log = <<>> THEN full
    ELSE SlotAfter(IF Head(log) \in SaveEntries THEN TRUE
                   ELSE IF Head(log) \in ReturnEntries THEN FALSE
                   ELSE full,
                   Tail(log))

\* the signals by which the new store values differ from the old ones
Signals(sel, f, fset, flag, loc) ==
    (IF sel # selectedEntity /\ sel # NoSelection THEN {"select"} ELSE {})
    \cup (IF sel # selectedEntity /\ sel = NoSelection THEN {"deselect"} ELSE {})
    \cup (IF fset THEN {"focus"} ELSE {})
    \cup (IF flag # restoreCameraFlag THEN {"restore"} ELSE {})
    \cup (IF loc # initialLocation THEN {"geo"} ELSE {})

\* the select / switch / deselect scenario the last observations form
NextPhase(sig, sel, log) ==
    IF sig = {"select"} /\ selectedEntity = NoSelection /\ "save:aircraft" \in Entries(log)
    THEN "tracking"
    ELSE IF sig = {"select"} /\ g.phase \in {"tracking", "switched"} /\ sel.type = "aircraft"
    THEN "switched"
    ELSE IF sig = {"deselect"} /\ g.phase = "tracking" THEN "returned"
    ELSE IF sig = {"deselect"} /\ g.phase = "switched" THEN "returnedSw"
    ELSE "idle"

\* the most recent focus request that started an animation, forgotten when the
\* selection changes or a restore is observed
\* a search session is open: a focus request has been accepted with nothing
\* selected since the restore token last changed
NextSearching(sig, sel, f) ==
    IF "restore" \in sig THEN FALSE
    ELSE g.searching \/ ("focus" \in sig /\ sel = NoSelection /\ FocusAccepted(c, f))

NextLastFocus(sig, f, log) ==
    IF sig \cap {"select", "deselect", "restore"} # {} THEN <<>>
    ELSE IF "start:focus" \in Entries(log) THEN f
    ELSE g.lastFocus

\* ------------------------------------------------------------------------
\* Initial state: CameraController mounted, nothing selected, location unknown
\* ------------------------------------------------------------------------
InitialCamera ==
    [position |-> <<0, 0, DEFAULT_CAMERA_DISTANCE>>,
     target |-> Zero,
     currentTarget |-> Zero,
     isAnimating |-> FALSE,
     animationProgress |-> 0,
     startPosition |-> Zero,
     startTarget |-> Zero,
     targetCameraPos |-> Zero,
     targetLookAt |-> Zero,
     prevSelectedId |-> NULL,
     prevSelectedAirportId |-> NULL,
     isReturningToEarth |-> FALSE,
     savedCameraPosition |-> Zero,
     savedCameraTarget |-> Zero,
     prevFocusLocation |-> <<>>,
     hasSavedForFocus |-> FALSE,
     prevRestoreFlag |-> 0,
     isShiftHeld |-> FALSE,
     orbitTarget |-> Zero]

NoPose == [pos |-> Zero, look |-> Zero]

Init ==
    /\ selectedEntity = NoSelection
    /\ focusLocation = <<>>
    /\ restoreCameraFlag = 0
    /\ initialLocation = <<>>
    /\ locationReady = FALSE
    /\ c = InitialCamera
    /\ events = 0
    /\ g = [sig |-> {}, log |-> <<>>, found |-> TRUE,
            last |-> [sig |-> {}, log |-> <<>>],
            phase |-> "idle", p0 |-> NoPose, pSw |-> NoPose, slotFull |-> FALSE,
            lastFocus |-> <<>>, restorable |-> FALSE, searching |-> FALSE,
            focusSelectedId |-> NULL, focusSinceRestore |-> FALSE]
    /\ airportsLayer = [mounted |-> FALSE, locationReady |-> FALSE, fetchAirports |-> 0]
    /\ keyboard = [down |-> {}, now |-> 0, events |-> 0, target |-> "page",
                   otherWithShift |-> FALSE, tabArmed |-> FALSE, tabOut |-> <<>>]
    /\ inputManager = InitialInputManager
    /\ dispatched = <<>>
    /\ lod = [state |-> createLODState,
              args |-> [viewVisibility |-> 0, delta |-> 0, isHighlighted |-> FALSE],
              result |-> [opacity |-> 0, scale |-> 0, shouldRender |-> FALSE],
              calls |-> 0]
    /\ overlay = InitialOverlay

\* ------------------------------------------------------------------------
\* One commit: the store changed, the component re-rendered, and the effects
\* whose dependencies changed run in the order they are declared.
\* acFound / apFound: whether aircraft.find / airports.find return the
\* selected entity; dataChanged: the aircraft / airports arrays were replaced.
\* The result is the refs after the last effect, and what the effects did.
\* ------------------------------------------------------------------------
\* variant: the initial-position effect finds no controls and returns
BootstrapNeverRuns(loc) == FALSE

\* the initial-position effect runs its body: initialLocation changed (it is
\* set once, from null) and controlsRef.current is set, as it is from the
\* first commit on (<OrbitControls ref={controlsRef}> is always rendered)
BootstrapRuns(loc) == loc # initialLocation

RunEffects(r0, sel, f, fset, flag, loc, acFound, apFound, dataChanged) ==
    LET selectedId        == SelectedAircraftId(sel)
        selectedAirportId == SelectedAirportId(sel)
        idChanged         == selectedId # SelectedAircraftId(selectedEntity)
        airportChanged    == selectedAirportId # SelectedAirportId(selectedEntity)
        runs == [bootstrap |-> BootstrapRuns(loc),
                 focus     |-> fset \/ idChanged,
                 restore   |-> flag # restoreCameraFlag \/ idChanged \/ airportChanged,
                 airport   |-> airportChanged \/ dataChanged \/ idChanged,
                 aircraft  |-> idChanged \/ dataChanged \/ loc # initialLocation]
    IN  Bind(IF runs.bootstrap THEN BootstrapEffect(r0, loc) ELSE r0, LAMBDA r1 :
        Bind(IF runs.focus THEN FocusEffect(r1, f, selectedId) ELSE r1, LAMBDA r2 :
        Bind(IF runs.restore
             THEN RestoreEffect(r2, flag, selectedId, selectedAirportId) ELSE r2, LAMBDA r3 :
        Bind(IF runs.airport
             THEN AirportEffect(r3, selectedAirportId, apFound, selectedId) ELSE r3, LAMBDA r4 :
        Bind(IF runs.aircraft THEN AircraftEffect(r4, selectedId, acFound) ELSE r4, LAMBDA r5 :
            [c   |-> r5,
             log |-> EffectLog(r1, r2, r3, r4, runs, loc, f, flag, selectedId,
                               selectedAirportId, acFound, apFound)])))))

Commit(sel, f, fset, flag, loc, acFound, apFound, dataChanged) ==
    \E res \in {RunEffects(c, sel, f, fset, flag, loc, acFound, apFound, dataChanged)} :
    \E sig \in {Signals(sel, f, fset, flag, loc)
                \cup (IF dataChanged THEN {"data"} ELSE {})} :
    \E phase \in {NextPhase(sig, sel, res.log)} :
        /\ UNCHANGED others
        /\ selectedEntity' = sel
        /\ focusLocation' = f
        /\ restoreCameraFlag' = flag
        /\ initialLocation' = loc
        /\ locationReady' = (locationReady \/ BootstrapRuns(loc))
        /\ c' = res.c
        /\ g' = [sig |-> sig, log |-> res.log, found |-> acFound,
                 last |-> [sig |-> sig, log |-> res.log],
                 phase |-> phase,
                 p0 |-> IF phase = "tracking"
                        THEN [pos |-> c.position, look |-> c.target]
                        ELSE IF phase = "idle" THEN NoPose ELSE g.p0,
                 pSw |-> IF phase = "switched"
                         THEN [pos |-> c.position, look |-> c.target]
                         ELSE IF phase = "returnedSw" THEN g.pSw ELSE NoPose,
                 slotFull |-> SlotAfter(g.slotFull, res.log),
                 lastFocus |-> NextLastFocus(sig, f, res.log),
                 restorable |-> HasSaved(c) /\ selectedEntity = NoSelection,
                 searching |-> NextSearching(sig, sel, f),
                 focusSelectedId |-> IF "focus" \in sig THEN SelectedAircraftId(sel)
                                     ELSE g.focusSelectedId,
                 focusSinceRestore |-> IF "restore" \in sig THEN FALSE
                                       ELSE g.focusSinceRestore \/ "focus" \in sig]

\* ------------------------------------------------------------------------
\* Actions
\* ------------------------------------------------------------------------
KeepFocus == [op |-> "keep", loc |-> [lat |-> 0, lon |-> 0, alt |-> 0]]

FocusOps == {KeepFocus} \cup { [op |-> "set", loc |-> l] : l \in FocusInputs }

\* what one render can observe of the user: a selection (with the outcome of
\* the registry lookup), a focus request and a restore, alone or together
UserInputs ==
    [sel : Selections, found : BOOLEAN, fop : FocusOps, restore : BOOLEAN]

\* the observations without a focus request
SelectionInputs == { b \in UserInputs : b.fop = KeepFocus }

\* the user selects, deselects, searches (focus) and presses ESC (restore)
\* once the loading screen has gone; store updates made before the next render
\* are observed together
ObserveUser(b, max) ==
    LET fset == b.fop.op # "keep"
        f    == IF fset THEN <<b.fop.loc>> ELSE focusLocation
        flag == IF b.restore THEN restoreCameraFlag + 1 ELSE restoreCameraFlag
    IN  /\ locationReady
        /\ b.sel # selectedEntity \/ fset \/ b.restore
        /\ b.found \/ (b.sel # selectedEntity /\ b.sel # NoSelection)
        /\ flag <= MaxRestore
        /\ events < max
        /\ events' = events + 1
        /\ Commit(b.sel, f, fset, flag, initialLocation, b.found, b.found, FALSE)

\* a search result carrying an out-of-range coordinate is focused, nothing
\* being selected
ObserveInvalidFocus(l, max) ==
    /\ locationReady
    /\ selectedEntity = NoSelection
    /\ events < max
    /\ events' = events + 1
    /\ Commit(selectedEntity, <<l>>, TRUE, restoreCameraFlag, initialLocation,
              TRUE, TRUE, FALSE)

\* the geolocation callback (or its absence) sets initialLocation, once
ObserveLocation(loc) ==
    /\ initialLocation = <<>>
    /\ events' = events
    /\ Commit(selectedEntity, focusLocation, FALSE, restoreCameraFlag, <<loc>>,
              TRUE, TRUE, FALSE)

\* the store's aircraft and airports arrays are replaced (a poll result); the
\* selection is unchanged and the selected id is, or is no longer, in them
ObserveData(found, max) ==
    /\ locationReady
    /\ events < max
    /\ events' = events + 1
    /\ Commit(selectedEntity, focusLocation, FALSE, restoreCameraFlag,
              initialLocation, found, found, TRUE)

\* a store change observed before the location is determined: the loading
\* overlay does not take input (pointer-events-none), the effects run as ever
ObserveEarly(b, max) ==
    LET fset == b.fop.op # "keep"
        f    == IF fset THEN <<b.fop.loc>> ELSE focusLocation
        flag == IF b.restore THEN restoreCameraFlag + 1 ELSE restoreCameraFlag
    IN  /\ ~locationReady
        /\ b.sel # selectedEntity \/ fset \/ b.restore
        /\ flag <= MaxRestore
        /\ events < max
        /\ events' = events + 1
        /\ Commit(b.sel, f, fset, flag, initialLocation, b.found, b.found, FALSE)

\* position.coords of a successful getCurrentPosition
ReportedPositions == { [lat |-> 30 * Deg, lon |-> -90 * Deg] }

\* the ways getCurrentPosition does not deliver a position: the error callback
\* (denied or failed), the 5 s timeout, no navigator.geolocation at all
GeolocationFailures == {"error", "timeout", "absent"}

\* success callback: setInitialLocation(position.coords)
GeolocationSucceeds(p) ==
    /\ p \in ReportedPositions
    /\ ObserveLocation(p)

\* error callback or else branch: setInitialLocation(DEFAULT_LOCATION)
GeolocationFails(why) ==
    /\ why \in GeolocationFailures
    /\ ObserveLocation(DEFAULT_LOCATION)

\* position of a camera object that replaces the default camera
NewCameraPositions == { <<0, 0, DEFAULT_CAMERA_DISTANCE>> }

\* every effect has camera in its dependencies: with a new camera object all
\* of them run, on unchanged store values
CameraEffects(r0, found) ==
    LET selectedId        == SelectedAircraftId(selectedEntity)
        selectedAirportId == SelectedAirportId(selectedEntity)
        runs == [bootstrap |-> TRUE, focus |-> TRUE, restore |-> TRUE,
                 airport |-> TRUE, aircraft |-> TRUE]
    IN  Bind(BootstrapEffect(r0, initialLocation), LAMBDA r1 :
        Bind(FocusEffect(r1, focusLocation, selectedId), LAMBDA r2 :
        Bind(RestoreEffect(r2, restoreCameraFlag, selectedId, selectedAirportId), LAMBDA r3 :
        Bind(AirportEffect(r3, selectedAirportId, found, selectedId), LAMBDA r4 :
        Bind(AircraftEffect(r4, selectedId, found), LAMBDA r5 :
            [c   |-> r5,
             log |-> EffectLog(r1, r2, r3, r4, runs, initialLocation, focusLocation,
                               restoreCameraFlag, selectedId, selectedAirportId,
                               found, found)])))))

\* useThree() returns another camera object (the default camera was replaced);
\* OrbitControls builds new controls for it, target (0,0,0)
ReplaceCamera(pos, max) ==
    /\ events < max
    /\ events' = events + 1
    /\ \E res \in {CameraEffects([c EXCEPT !.position = pos, !.target = Zero], g.found)} :
           /\ c' = res.c
           /\ g' = [g EXCEPT !.sig = {"camera"}, !.log = res.log, !.restorable = FALSE]
    /\ UNCHANGED <<store, others>>

\* ------------------------------------------------------------------------
\* Shift key: orbit mode
\* ------------------------------------------------------------------------
\* latLonToVector3 of each aircraft's current position
AircraftPosition ==
    [i \in AircraftIds |->
        latLonToVector3(AircraftData[i].latitude, AircraftData[i].longitude,
                        AircraftData[i].altitude)]

\* (0, 0, -1).applyQuaternion(camera.quaternion): controls.update() leaves the
\* camera looking at the controls' target
ViewDirection(r) == Normalize(VSub(r.target, r.position))

\* Ray.intersectSphere(globeSphere) for the ray from origin along direction;
\* the sphere is the unit sphere at the centre
IntersectSphere(origin, direction) ==
    Bind(Dot(VSub(Zero, origin), direction), LAMBDA tca :
    Bind(LengthSq(origin) - tca * tca, LAMBDA d2 :
        IF d2 > Scale * Scale THEN [hit |-> FALSE, point |-> Zero]
        ELSE Bind(ISqrt(Scale * Scale - d2), LAMBDA thc :
                 IF tca + thc < 0 THEN [hit |-> FALSE, point |-> Zero]
                 ELSE [hit |-> TRUE,
                       point |-> VAdd(origin,
                                      VScale(direction,
                                             IF tca - thc < 0 THEN tca + thc
                                                              ELSE tca - thc))])))

\* variant: the orbit point is always the point of the globe under the camera
OrbitPointUnderCamera(r, selectedId, found) == Normalize(r.position)

\* the point the camera orbits while Shift is held
OrbitPoint(r, selectedId, found) ==
    IF selectedId # NULL /\ found THEN AircraftPosition[selectedId]
    ELSE Bind(IntersectSphere(r.position, ViewDirection(r)), LAMBDA x :
             IF x.hit THEN x.point ELSE Normalize(r.position))

\* handleKeyDown, e.key = 'Shift'
KeyDownEffect(r, selectedId, found) ==
    IF r.isShiftHeld THEN r
    ELSE Bind(OrbitPoint(r, selectedId, found), LAMBDA point :
             Bind([r EXCEPT !.isShiftHeld = TRUE,
                            !.orbitTarget = point,
                            !.target = point], OrbitUpdate))

\* handleKeyUp, e.key = 'Shift'
KeyUpEffect(r) ==
    IF ~r.isShiftHeld THEN r
    ELSE Bind([r EXCEPT !.isShiftHeld = FALSE,
                        !.target = Zero,
                        !.currentTarget = Zero], OrbitUpdate)

\* a keydown event of the Shift key (also the repeats while it is held); found:
\* whether the store's aircraft array holds the selected aircraft
KeyDown(found, max) ==
    /\ locationReady
    /\ found \/ selectedEntity.type = "aircraft"
    /\ events < max
    /\ events' = events + 1
    /\ c' = KeyDownEffect(c, SelectedAircraftId(selectedEntity), found)
    /\ g' = [g EXCEPT !.sig = {"keydown"},
                      !.log = IF c.isShiftHeld THEN <<>> ELSE <<"lock:shift">>,
                      !.found = found,
                      !.restorable = FALSE]
    /\ UNCHANGED <<store, others>>

\* a keyup event of the Shift key
KeyUp(max) ==
    /\ locationReady
    /\ events < max
    /\ events' = events + 1
    /\ c' = KeyUpEffect(c)
    /\ g' = [g EXCEPT !.sig = {"keyup"},
                      !.log = IF c.isShiftHeld THEN <<"release:shift">> ELSE <<>>,
                      !.restorable = FALSE]
    /\ UNCHANGED <<store, others>>

\* one rendered frame
Tick(dp) ==
    /\ c' = Frame(c, dp)
    /\ g' = [g EXCEPT !.sig = {}, !.log = <<>>, !.restorable = FALSE]
    /\ UNCHANGED <<store, events, others>>

\* delta * 1.2 of a frame, in progress units: a short and a long frame
FrameSteps == {1, ProgDen}

\* selection, focus and restore in any combination
Next ==
    \/ \E b \in UserInputs : ObserveUser(b, MaxEvents)
    \/ ObserveLocation(DEFAULT_LOCATION)
    \/ \E dp \in FrameSteps : Tick(dp)

Spec == Init /\ [][Next]_vars

\* selection and restore only, explored deeper
NextSel ==
    \/ \E b \in SelectionInputs : ObserveUser(b, MaxSelEvents)
    \/ ObserveLocation(DEFAULT_LOCATION)
    \/ \E dp \in FrameSteps : Tick(dp)

SpecSel == Init /\ [][NextSel]_vars

\* the observations that leave the selection empty
FocusOnlyInputs == { b \in UserInputs : b.sel = NoSelection /\ b.found }

\* focus requests and restore only, nothing ever selected
NextFocus ==
    \/ \E b \in FocusOnlyInputs : ObserveUser(b, MaxFocusEvents)
    \/ ObserveLocation(DEFAULT_LOCATION)
    \/ \E dp \in FrameSteps : Tick(dp)

SpecFocus == Init /\ [][NextFocus]_vars

\* the observations in which no aircraft is selected
SearchInputs == { b \in UserInputs : b.sel.type # "aircraft" /\ b.found }

\* searches (focus requests), restores and airport selections
NextSearch ==
    \/ \E b \in SearchInputs : ObserveUser(b, MaxSearchEvents)
    \/ ObserveLocation(DEFAULT_LOCATION)
    \/ \E dp \in FrameSteps : Tick(dp)

SpecSearch == Init /\ [][NextSearch]_vars

\* the observations in which nothing or the first aircraft is selected
ReplayInputs ==
    { b \in UserInputs : b.sel.type # "airport" /\ b.sel.id # "B" /\ b.found }

\* searches (focus requests) and restores around the selection of an aircraft
NextReplay ==
    \/ \E b \in ReplayInputs : ObserveUser(b, MaxReplayEvents)
    \/ ObserveLocation(DEFAULT_LOCATION)
    \/ \E dp \in FrameSteps : Tick(dp)

SpecReplay == Init /\ [][NextReplay]_vars

\* focus requests, some of them with coordinates out of range
NextInvalid ==
    \/ \E b \in FocusOnlyInputs : ObserveUser(b, MaxFocusEvents)
    \/ \E l \in InvalidFocusInputs : ObserveInvalidFocus(l, MaxFocusEvents)
    \/ ObserveLocation(DEFAULT_LOCATION)
    \/ \E dp \in FrameSteps : Tick(dp)

SpecInvalid == Init /\ [][NextInvalid]_vars

\* the geolocation bootstrap, with focus requests and restores before and
\* after it and a camera that may be replaced
NextBoot ==
    \/ \E b \in FocusOnlyInputs : ObserveEarly(b, MaxBootEvents)
    \/ \E b \in FocusOnlyInputs : ObserveUser(b, MaxBootEvents)
    \/ \E p \in ReportedPositions : GeolocationSucceeds(p)
    \/ \E why \in GeolocationFailures : GeolocationFails(why)
    \/ \E pos \in NewCameraPositions : ReplaceCamera(pos, MaxBootEvents)
    \/ \E dp \in FrameSteps : Tick(dp)

SpecBoot == Init /\ [][NextBoot]_vars

\* getCurrentPosition calls one of its two callbacks (the options carry a
\* timeout), and without navigator.geolocation the mount effect itself sets
\* the location: the result is not withheld for ever
GeolocationResult ==
    \/ \E p \in ReportedPositions : GeolocationSucceeds(p)
    \/ \E why \in GeolocationFailures : GeolocationFails(why)

SpecBootLive == SpecBoot /\ WF_vars(GeolocationResult)

\* ------------------------------------------------------------------------
\* InputManager: key events and the Tab hold timer
\* ------------------------------------------------------------------------
\* the Tab hold timer has run out and its callback has not run yet
TabTimerDue ==
    /\ inputManager.tabHoldTimeout = "pending"
    /\ keyboard.now >= inputManager.tabPressTime + HoldTicks

\* a keydown event (an auto-repeat when the key is already down); a timer
\* that has run out fires before the next event
KeyDownEvent(key, target, max) ==
    /\ keyboard.events < max
    /\ ~TabTimerDue
    /\ \E repeat \in {key \in keyboard.down} :
       \E res \in {handleKeyDown(inputManager, key, target, repeat, keyboard.now)} :
           /\ inputManager' = res.im
           /\ dispatched' = res.out
           /\ keyboard' =
                  [keyboard EXCEPT
                      !.down = @ \cup {key},
                      !.events = @ + 1,
                      !.target = target,
                      !.otherWithShift =
                          IF key = "Shift" /\ ~repeat THEN FALSE
                          ELSE IF key \notin ModifierKeys /\ "Shift" \in keyboard.down
                          THEN TRUE ELSE @,
                      !.tabArmed =
                          IF key = "Tab" /\ ~repeat
                          THEN target = "page" /\ keyboard.down \cap ModifierKeys = {}
                          ELSE @,
                      !.tabOut = IF key = "Tab" /\ ~repeat THEN <<>>
                                 ELSE @ \o FilterActions(res.out)]
    /\ UNCHANGED <<controller, airportsLayer, lod, overlay>>

\* a keyup event of a key that is down
KeyUpEvent(key, target, max) ==
    /\ keyboard.events < max
    /\ ~TabTimerDue
    /\ key \in keyboard.down
    /\ \E res \in {handleKeyUp(inputManager, key, target, keyboard.now)} :
           /\ inputManager' = res.im
           /\ dispatched' = res.out
           /\ keyboard' = [keyboard EXCEPT !.down = @ \ {key},
                                           !.events = @ + 1,
                                           !.target = target,
                                           !.tabOut = @ \o FilterActions(res.out)]
    /\ UNCHANGED <<controller, airportsLayer, lod, overlay>>

\* the callback of the Tab hold timer, 300 ms after the press
TabHoldTimer ==
    /\ TabTimerDue
    /\ inputManager' = [inputManager EXCEPT !.tabHoldTimeout = "fired"]
    /\ dispatched' = <<"filter_menu_open">>
    /\ keyboard' = [keyboard EXCEPT !.tabOut = @ \o <<"filter_menu_open">>]
    /\ UNCHANGED <<controller, airportsLayer, lod, overlay>>

\* 150 ms pass
AdvanceClock ==
    /\ keyboard.now < MaxClock
    /\ ~TabTimerDue
    /\ keyboard' = [keyboard EXCEPT !.now = @ + 1]
    /\ dispatched' = <<>>
    /\ UNCHANGED <<controller, airportsLayer, inputManager, lod, overlay>>

NextInput ==
    \/ \E key \in Keys, target \in Targets : KeyDownEvent(key, target, MaxInputEvents)
    \/ \E key \in Keys, target \in Targets : KeyUpEvent(key, target, MaxInputEvents)
    \/ TabHoldTimer
    \/ AdvanceClock

SpecInput == Init /\ [][NextInput]_vars

\* ------------------------------------------------------------------------
\* LOD: one object's fade
\* ------------------------------------------------------------------------
\* view visibilities in [0, 1]: both ends, around the render threshold, middle
Visibilities == {0, 50, 100, 101, 5000, OpScale}

\* frame deltas in milliseconds: none, a frame, around the cap (62.5), a stall
Deltas == {0, 16, 62, 63, 1000}

\* a frame updates the LOD state of the object
UpdateLOD(viewVisibility, delta, isHighlighted) ==
    /\ lod.calls < MaxLodCalls
    /\ \E res \in {updateLODState(lod.state, viewVisibility, delta, isHighlighted)} :
           lod' = [state |-> res.state,
                   args |-> [viewVisibility |-> viewVisibility, delta |-> delta,
                             isHighlighted |-> isHighlighted],
                   result |-> res.result,
                   calls |-> lod.calls + 1]
    /\ UNCHANGED <<controller, airportsLayer, input, overlay>>

NextLOD ==
    \E v \in Visibilities, d \in Deltas, h \in BOOLEAN : UpdateLOD(v, d, h)

SpecLOD == Init /\ [][NextLOD]_vars

\* ------------------------------------------------------------------------
\* LoadingOverlay: stages, progress and intro phases
\* ------------------------------------------------------------------------
\* values of newProgress (prev + (target - prev) * factor + jitter, the jitter
\* being random): below the previous progress, in between, above 99
ProgressCandidates == {-5, 10, 25, 40, 55, 70, 85, 99, 130}

\* the store's locationReady has changed: the overlay renders again
OverlayRender ==
    /\ overlay.locationReady # locationReady
    /\ overlay' = RenderOverlay(overlay, locationReady)
    /\ UNCHANGED <<controller, airportsLayer, input, lod>>

\* the timer of the current stage: the next stage, unless it is the last
StageTimer ==
    /\ ~overlay.locationReady
    /\ overlay.stageIndex < StageCount - 1
    /\ overlay' = RenderOverlay([overlay EXCEPT !.stageIndex = @ + 1], locationReady)
    /\ UNCHANGED <<controller, airportsLayer, input, lod>>

\* the progress interval
ProgressInterval(newProgress) ==
    /\ ~overlay.locationReady
    /\ overlay' = RenderOverlay([overlay EXCEPT !.progress = NextProgress(@, newProgress)],
                                locationReady)
    /\ UNCHANGED <<controller, airportsLayer, input, lod>>

\* the earliest of the pending intro timers
IntroTimer ==
    /\ overlay.timers # {}
    /\ \E i \in DOMAIN IntroPhases :
           /\ IntroPhases[i] \in overlay.timers
           /\ \A j \in 1 .. i - 1 : IntroPhases[j] \notin overlay.timers
           /\ overlay' = [overlay EXCEPT !.timers = @ \ {IntroPhases[i]},
                                         !.introPhases = Append(@, IntroPhases[i])]
    /\ UNCHANGED <<controller, airportsLayer, input, lod>>

NextOverlay ==
    \/ ObserveLocation(DEFAULT_LOCATION)
    \/ OverlayRender
    \/ StageTimer
    \/ \E x \in ProgressCandidates : ProgressInterval(x)
    \/ IntroTimer

SpecOverlay == Init /\ [][NextOverlay]_vars

\* ------------------------------------------------------------------------
\* AirportsLayer: the airport fetch
\* ------------------------------------------------------------------------
\* variant: the effect fetches whatever locationReady is
AirportsLayerEffectUngated ==
    /\ ~airportsLayer.mounted \/ airportsLayer.locationReady # locationReady
    /\ airportsLayer' =
           [mounted |-> TRUE,
            locationReady |-> locationReady,
            fetchAirports |-> airportsLayer.fetchAirports + 1]
    /\ UNCHANGED <<controller, input, lod, overlay>>

\* useEffect(..., [locationReady, fetchAirports]): runs when the layer mounts
\* (inside the scene's Suspense boundary) and when the locationReady it
\* renders with has changed; fetchAirports is a stable store action
AirportsLayerEffect ==
    /\ ~airportsLayer.mounted \/ airportsLayer.locationReady # locationReady
    /\ airportsLayer' =
           [mounted |-> TRUE,
            locationReady |-> locationReady,
            fetchAirports |-> IF locationReady THEN airportsLayer.fetchAirports + 1
                              ELSE airportsLayer.fetchAirports]
    /\ UNCHANGED <<controller, input, lod, overlay>>

\* the bootstrap with the airports layer
NextLoad ==
    \/ \E b \in FocusOnlyInputs : ObserveEarly(b, MaxLoadEvents)
    \/ \E b \in FocusOnlyInputs : ObserveUser(b, MaxLoadEvents)
    \/ \E p \in ReportedPositions : GeolocationSucceeds(p)
    \/ \E why \in GeolocationFailures : GeolocationFails(why)
    \/ AirportsLayerEffect
    \/ \E dp \in FrameSteps : Tick(dp)

SpecLoad == Init /\ [][NextLoad]_vars

\* React commits a pending render and runs its effects; the geolocation
\* result is not withheld for ever
SpecLoadLive == SpecLoad /\ WF_vars(GeolocationResult) /\ WF_vars(AirportsLayerEffect)

\* selections and restores, with the Shift key pressed and released
NextKeys ==
    \/ \E b \in SelectionInputs : ObserveUser(b, MaxKeyEvents)
    \/ \E found \in BOOLEAN : KeyDown(found, MaxKeyEvents)
    \/ KeyUp(MaxKeyEvents)
    \/ ObserveLocation(DEFAULT_LOCATION)
    \/ \E dp \in FrameSteps : Tick(dp)

SpecKeys == Init /\ [][NextKeys]_vars

\* selections, and registries that change under them
NextData ==
    \/ \E b \in SelectionInputs : ObserveUser(b, MaxDataEvents)
    \/ \E found \in BOOLEAN : ObserveData(found, MaxDataEvents)
    \/ ObserveLocation(DEFAULT_LOCATION)
    \/ \E dp \in FrameSteps : Tick(dp)

SpecData == Init /\ [][NextData]_vars

\* ------------------------------------------------------------------------
\* Views of the state used by the properties
\* ------------------------------------------------------------------------
\* the camera's current pose
CamPose == [pos |-> c.position, look |-> c.target]

\* the target of the animation
TargetPose == [pos |-> c.targetCameraPos, look |-> c.targetLookAt]

\* the step is a commit in which some effect started an animation
AnimationStarted == Entries(g'.log) \cap StartEntries # {}

\* the step is the frame on which the animation in flight completes
AnimationCompleted == c.isAnimating /\ ~c'.isAnimating

\* the signals of the user (the geolocation is not one)
UserSignals == {"select", "deselect", "restore", "focus"}

\* the refs the effects would have left had the step's observation carried
\* only its highest-ranked signal (selection, deselection, restore, focus)
HighestAlone ==
    LET selChanged == g'.sig \cap {"select", "deselect"} # {}
    IN  RunEffects(c,
                   IF selChanged THEN selectedEntity' ELSE selectedEntity,
                   IF g'.sig = {"focus"} THEN focusLocation' ELSE focusLocation,
                   g'.sig = {"focus"},
                   IF ~selChanged /\ "restore" \in g'.sig
                   THEN restoreCameraFlag' ELSE restoreCameraFlag,
                   initialLocation, g'.found, g'.found, FALSE).c

\* |a - b| < 0.0001 degrees in latitude and in longitude
NearBy(a, b) ==
    Abs(a.lat - b.lat) < FOCUS_EPSILON /\ Abs(a.lon - b.lon) < FOCUS_EPSILON

\* ------------------------------------------------------------------------
\* Properties
\* ------------------------------------------------------------------------
\* C1: save/restore round trip.  With nothing selected and the camera at pose
\* P0 (g.p0), an aircraft of the registry is selected and, after any number of
\* frames, deselected: the deselection starts a returning animation from the
\* current pose whose target is P0, and on the frame that completes that
\* animation the camera's pose is P0.
C1_RoundTrip ==
    [][ /\ (g'.phase = "returned" /\ g'.sig = {"deselect"}
            => /\ c'.isAnimating /\ c'.isReturningToEarth
               /\ c'.animationProgress = 0
               /\ TargetPose' = g'.p0)
        /\ (g.phase = "returned" /\ AnimationCompleted => CamPose' = g.p0)
      ]_vars

\* C1 happens: the return of a round trip has completed at P0, away from the
\* pose the camera had while tracking
C1_Witness ==
    /\ g.phase = "returned"
    /\ ~c.isAnimating
    /\ c.animationProgress >= ProgDen
    /\ CamPose = g.p0
    /\ c.startPosition # g.p0.pos

\* C2: first save wins across aircraft switches.  After an aircraft was
\* selected from the no-selection state at pose P0 (g.p0), direct switches to
\* other aircraft leave the saved pose equal to P0, and the deselection that
\* follows returns to P0.
C2_FirstSaveWinsAcrossSwitches ==
    /\ (g.phase = "switched" => SavedPose(c) = g.p0)
    /\ (g.phase = "returnedSw"
            => TargetPose = g.p0 /\ (c.isAnimating => c.isReturningToEarth))

\* C2 happens: after a switch made at a pose other than P0, the deselection
\* is returning to P0
C2_Witness ==
    /\ g.phase = "returnedSw"
    /\ c.isAnimating /\ c.isReturningToEarth
    /\ g.pSw # g.p0
    /\ TargetPose = g.p0

\* C3: the saved pose is one first-save-wins slot.  While a saved pose waits
\* to be returned to (g.slotFull), an observation that starts no return leaves
\* the saved pose as it is, whichever of the aircraft selection, the airport
\* selection and the first focus request asks to save.
C3_SingleSlot ==
    [][ g.slotFull /\ Entries(g'.log) \cap ReturnEntries = {}
        => SavedPose(c') = SavedPose(c) ]_vars

\* C4: selection outranks restore.  When one observation carries a restore
\* and the selection of a new aircraft of the registry, the animation in
\* flight afterwards is the selection's (not returning, progress 0, target
\* framing the aircraft) and the restore has started nothing.
C4_SelectionOutranksRestore ==
    /\ {"select", "restore"} \subseteq g.sig
    /\ selectedEntity.type = "aircraft"
    /\ g.found
    => /\ c.isAnimating /\ ~c.isReturningToEarth
       /\ c.animationProgress = 0
       /\ TargetPose = AircraftPose[selectedEntity.id]
       /\ "return:restore" \notin Entries(g.log)

\* C4 happens: the restore arrived together with the selection while a saved
\* pose was waiting and nothing was selected, and the camera is heading to the
\* aircraft
C4_Witness ==
    /\ g.sig = {"select", "restore"}
    /\ selectedEntity.type = "aircraft"
    /\ g.found
    /\ g.restorable
    /\ c.prevRestoreFlag = restoreCameraFlag
    /\ c.isAnimating /\ ~c.isReturningToEarth
    /\ TargetPose = AircraftPose[selectedEntity.id]

\* C5: tie-break order.  When an observation carries two or more of
\* selection, deselection, restore and focus, the animation target and the
\* saved pose afterwards are those the highest-ranked signal alone would have
\* produced (selection > deselection > restore > focus).  Stated for the
\* observations whose selected entity, if any, is in the registry.
C5_TieBreak ==
    [][ Cardinality(g'.sig \cap UserSignals) >= 2 /\ g'.found
        => /\ TargetPose' = [pos |-> HighestAlone.targetCameraPos,
                             look |-> HighestAlone.targetLookAt]
           /\ SavedPose(c') = SavedPose(HighestAlone) ]_vars

\* C6 as stated: with nothing selected, when an observation carrying only a
\* focus request follows one carrying only a focus request, and the two
\* requests differ by less than 1e-4 degrees in latitude and in longitude, the
\* second starts nothing, does not reset the progress and saves no pose.
C6_ConsecutiveRequests ==
    [][ /\ g'.sig = {"focus"} /\ g.last.sig = {"focus"}
        /\ selectedEntity = NoSelection
        /\ NearBy(focusLocation'[1], focusLocation[1])
        => /\ g'.log = <<>>
           /\ c'.animationProgress = c.animationProgress
           /\ SavedPose(c') = SavedPose(c) ]_vars

\* C6: focus idempotence.  With nothing selected, a focus request that differs
\* by less than 1e-4 degrees in latitude and in longitude from the most recent
\* request that started an animation (g.lastFocus; no selection change and no
\* restore since) changes nothing: no animation start, no progress reset, no
\* save.
C6_FocusIdempotence ==
    [][ /\ g'.sig = {"focus"}
        /\ selectedEntity = NoSelection
        /\ g.lastFocus # <<>>
        /\ NearBy(focusLocation'[1], g.lastFocus[1])
        => g'.log = <<>> /\ c' = c ]_vars

\* C6 happens: a request near, but not equal to, the one that started the
\* animation in flight has been observed and the animation went on
C6_Witness ==
    /\ g.sig = {"focus"}
    /\ g.log = <<>>
    /\ selectedEntity = NoSelection
    /\ g.lastFocus # <<>>
    /\ focusLocation # g.lastFocus
    /\ NearBy(focusLocation[1], g.lastFocus[1])
    /\ c.isAnimating /\ c.animationProgress > 0

\* C7: animation override.  Every animation start leaves the animation in
\* flight with progress 0, its start at the pose the camera had, and a target
\* assigned by that start (never the target of an earlier animation).
C7_Override ==
    [][ AnimationStarted
        => /\ c'.isAnimating
           /\ c'.animationProgress = 0
           /\ c'.startPosition = c'.position /\ c'.startTarget = c'.target
           /\ "stale:airport" \notin Entries(g'.log) ]_vars

\* C8: animation completion.  On the frame on which the animation in flight
\* completes, the camera's position and lookAt equal the target exactly and
\* neither animating nor returning is set.
C8_Completion ==
    [][ AnimationCompleted
        => /\ c'.position = c.targetCameraPos
           /\ c'.target = c.targetLookAt
           /\ ~c'.isAnimating /\ ~c'.isReturningToEarth ]_vars

\* C9: rest-pose floor.  After the bootstrap, whenever no animation is in
\* flight the camera is at least MIN_CAMERA_DISTANCE from the centre.
C9_RestFloor ==
    locationReady /\ ~c.isAnimating => Length(c.position) >= MIN_CAMERA_DISTANCE

\* C10: consuming the saved pose empties the slot.  When the last saved pose
\* has been taken by a return (g.slotFull is false), a restore observed with
\* nothing selected starts no animation.
C10_ConsumedSlotIsEmpty ==
    [][ /\ ~g.slotFull
        /\ g'.sig = {"restore"}
        /\ selectedEntity = NoSelection
        => Entries(g'.log) \cap StartEntries = {} ]_vars

\* C11: empty-slot fallback.  When a deselection (of an aircraft or of an
\* airport) is observed alone while no pose is saved, it starts a returning
\* animation whose target is the default view: CITY_ZOOM_DISTANCE from the
\* centre along the camera's current direction, looking at the centre.
C11_EmptySlotFallback ==
    [][ /\ g'.sig = {"deselect"}
        /\ ~HasSaved(c)
        => /\ c'.isAnimating /\ c'.isReturningToEarth
           /\ TargetPose' = FallbackPose(c) ]_vars

\* The animation state of the session: everything useFrame reads to move the
\* camera.
AnimationState ==
    << c.isAnimating, c.animationProgress, c.isReturningToEarth,
       c.startPosition, c.startTarget, c.targetCameraPos, c.targetLookAt >>

\* The saved slot.
SavedSlot == << c.savedCameraPosition, c.savedCameraTarget >>

\* C12: a focus request observed alone while an entity (an aircraft or an
\* airport) is selected is ignored entirely: it starts no animation, saves no
\* pose and leaves the camera pose, the animation state and the saved slot
\* unchanged.
C12_FocusIgnoredWhileSelected ==
    [][ /\ g'.sig = {"focus"}
        /\ selectedEntity # NoSelection
        => /\ g'.log = << >>
           /\ CamPose' = CamPose
           /\ AnimationState' = AnimationState
           /\ SavedSlot' = SavedSlot ]_vars

\* C13: restore rule.  A change of restoreCameraFlag observed alone
\*  - while an aircraft or an airport is selected starts no animation and
\*    leaves the camera pose, the animation state and the saved pose unchanged;
\*  - with nothing selected and a pose saved (savedCameraPosition non-zero)
\*    starts an animation with isReturningToEarth true, progress 0, whose
\*    target is the saved pose;
\*  - with nothing selected and nothing saved starts no animation.
C13_RestoreRule ==
    [][ g'.sig = {"restore"}
        => IF selectedEntity # NoSelection
           THEN /\ g'.log = << >>
                /\ CamPose' = CamPose
                /\ AnimationState' = AnimationState
                /\ SavedSlot' = SavedSlot
           ELSE IF HasSaved(c)
           THEN /\ g'.log = << "return:restore" >>
                /\ c'.isAnimating /\ c'.isReturningToEarth
                /\ c'.animationProgress = 0
                /\ TargetPose' = SavedPose(c)
                /\ SavedSlot' = SavedSlot
           ELSE /\ g'.log = << >>
                /\ AnimationState' = AnimationState
                /\ CamPose' = CamPose ]_vars

\* C13 happens: a restore arrived alone with nothing selected while a pose
\* was saved, and the camera is returning to that pose
C13_Witness ==
    /\ g.sig = {"restore"}
    /\ selectedEntity = NoSelection
    /\ g.restorable
    /\ g.log = << "return:restore" >>
    /\ c.isAnimating /\ c.isReturningToEarth
    /\ TargetPose = SavedPose(c)

\* C14: entity not found is an implicit deselection.  While an entity of the
\* registry is selected, an observation after which the selected id is not in
\* the registry (the selection moved to an unknown id, or the selected entity
\* left the registry) starts the return: an animation with isReturningToEarth
\* true to the saved pose, or to the default view when nothing is saved.
C14_NotFoundIsDeselection ==
    [][ /\ selectedEntity # NoSelection /\ g.found
        /\ g'.sig \in { {"select"}, {"data"} }
        /\ ~g'.found
        => /\ c'.isAnimating /\ c'.isReturningToEarth
           /\ TargetPose' = ReturnPose(c) ]_vars

\* C15: airport framing.  Whenever the selection becomes an airport of the
\* registry (from no selection, from another airport or directly from an
\* aircraft), the animation in flight after that observation is not a
\* returning one and its target is CITY_ZOOM_DISTANCE from the centre along
\* the airport's direction, looking at the centre.
C15_AirportFraming ==
    [][ /\ g'.sig = {"select"}
        /\ selectedEntity'.type = "airport"
        /\ g'.found
        => /\ c'.isAnimating /\ ~c'.isReturningToEarth
           /\ c'.animationProgress = 0
           /\ TargetPose' = AirportPose[selectedEntity'.id] ]_vars

\* C16: return transitions start only on a transition to no selection or on
\* a restore.  In every reachable state in which isReturningToEarth is true,
\* neither an aircraft nor an airport is selected.
C16_ReturningMeansNoSelection ==
    c.isReturningToEarth => selectedEntity = NoSelection

\* C17: bootstrap is one-shot.  The initial position is set at most once (it
\* is never set again once locationReady is true) and locationReady, once
\* true, is never reset, whatever is observed afterwards: store changes,
\* frames, a replaced camera object.
C17_BootstrapOnce ==
    [][ /\ locationReady => locationReady'
        /\ "snap:bootstrap" \in Entries(g'.log) => ~locationReady ]_vars

\* pose p is at distance dist from the centre along the direction of the
\* point of the globe at (lat, lon), looking at the centre; each coordinate to
\* within 0.002
PoseAlong(p, lat, lon, dist) ==
    LET d == latLonToVector3(lat, lon, 0)
        n == Length(d)
    IN  /\ p.look = Zero
        /\ \A i \in 1..3 : Abs(p.pos[i] * n - d[i] * dist) <= 2 * n

\* C18: bootstrap fallback.  When the geolocation fails, times out or is
\* absent, the camera is put at the city-zoom distance 1.15 along the
\* direction of (40.7128, -74.006) with the controls' target at the centre;
\* when it succeeds, along the reported coordinate at the same distance.
C18_BootstrapPose ==
    [][ /\ (\E why \in GeolocationFailures : GeolocationFails(why))
           => PoseAlong(CamPose', 4071280, -7400600, 1150)
        /\ \A p \in ReportedPositions :
              GeolocationSucceeds(p) => PoseAlong(CamPose', p.lat, p.lon, 1150) ]_vars

\* C18 happens: the geolocation has just failed and the camera stands over
\* the fallback coordinate
C18_Witness ==
    /\ g.sig = {"geo"}
    /\ "snap:bootstrap" \in Entries(g.log)
    /\ initialLocation = << DEFAULT_LOCATION >>
    /\ locationReady
    /\ PoseAlong(CamPose, 4071280, -7400600, 1150)

C20_SnapEndsAnimation ==
    [][ /\ g'.sig = {"geo"} => ~c'.isAnimating
        /\ g.sig = {"geo"} /\ g'.sig = {} => CamPose' = CamPose ]_vars

\* point p lies on the unit sphere and on the ray from origin along
\* direction: its distance from the centre to within 0.015, its distance from
\* the ray to within 0.003 in each coordinate
OnSphereAndRay(p, origin, direction) ==
    /\ Abs(Length(p) - Scale) <= 15
    /\ Dot(VSub(p, origin), direction) >= 0
    /\ \A i \in 1..3 : Abs(Cross(VSub(p, origin), direction)[i]) <= 3

\* the Shift key went down while it was not held
ShiftPressed == g'.sig = {"keydown"} /\ ~c.isShiftHeld

C22_KeyUpResetsPivot ==
    [][ /\ g'.sig = {"keyup"} /\ c.isShiftHeld
           => ~c'.isShiftHeld /\ c'.target = Zero
        /\ g'.sig = {"keyup"} /\ ~c.isShiftHeld => c' = c
        /\ g.log = <<"release:shift">> /\ g'.sig = {} => c'.target = Zero ]_vars

\* C23: while Shift is held the controls' target, around which rotation input
\* orbits, is the point installed at key-down, in every state up to the
\* key-up: no step between the two changes it, be it a repeated key-down, a
\* frame (also of an animation in flight), or an observed selection or restore.
C23_PivotHeld ==
    [][ c.isShiftHeld /\ c'.isShiftHeld => c'.target = c.target ]_vars

\* C24: Shift key-down and key-up leave the animation untouched: the
\* animation state (animating, returning, progress, start, target), the saved
\* pose, the camera position and the lookAt the animation drives
\* (currentTarget) are the same after the key event as before it.
C24_KeysLeaveAnimation ==
    [][ g'.sig \in { {"keydown"}, {"keyup"} }
        => /\ AnimationState' = AnimationState
           /\ SavedSlot' = SavedSlot
           /\ c'.position = c.position
           /\ c'.currentTarget = c.currentTarget ]_vars

\* the step is a frame rendered while no animation is in flight
IdleTick == g'.sig = {} /\ ~c.isAnimating

\* vectors a and b point the same way, to within 0.003 in each coordinate of
\* their cross product
SameDirection(a, b) ==
    /\ Dot(a, b) > 0
    /\ \A i \in 1..3 : Abs(Cross(a, b)[i]) <= 3

\* C25: idle tick.  A frame with no animation in flight changes nothing but
\* the floor clamp: with the camera at least MIN_CAMERA_DISTANCE (1.12) from
\* the centre nothing changes at all; with the camera below the floor the
\* position is rescaled along its direction to the floor (to within 0.01)
\* and everything else, the controls' target included, is unchanged.
C25_IdleTick ==
    [][ IdleTick
        => IF Length(c.position) >= MIN_CAMERA_DISTANCE
           THEN c' = c
           ELSE /\ c' = [c EXCEPT !.position = c'.position]
                /\ Length(c'.position) \in MIN_CAMERA_DISTANCE .. MIN_CAMERA_DISTANCE + 10
                /\ SameDirection(c'.position, c.position) ]_vars

\* C25 happens: an idle frame has just lifted the camera from below the floor
\* to the floor
C25_Witness ==
    /\ g.sig = {}
    /\ ~c.isAnimating
    /\ selectedEntity.type = "aircraft"
    /\ c.target # Zero
    /\ Length(c.position) \in MIN_CAMERA_DISTANCE .. MIN_CAMERA_DISTANCE + 10

\* speeds (knots) over which the view distance is examined
Speeds == 0 .. 1500

\* C26: aircraft framing.  Selecting an aircraft of the registry starts an
\* animation that is not returning, whose target lookAt is the aircraft's
\* position and whose target position is that position + 0.6 d up - 0.8 d
\* forward; the view distance d is non-decreasing in the speed and lies in
\* [0.08, 0.25]; and on the frame on which progress reaches 1 the camera pose
\* is this target.
C26_AircraftFraming ==
    [][ /\ g'.sig = {"select"} /\ selectedEntity'.type = "aircraft" /\ g'.found
           => /\ c'.isAnimating /\ ~c'.isReturningToEarth
              /\ TargetPose' = AircraftPose[selectedEntity'.id]
        /\ \A s \in Speeds :
              /\ ViewDistance(s) \in 80 .. 250
              /\ s + 1 \in Speeds => ViewDistance(s) <= ViewDistance(s + 1)
        /\ /\ AnimationCompleted
           /\ selectedEntity.type = "aircraft"
           /\ TargetPose = AircraftPose[selectedEntity.id]
           => CamPose' = TargetPose ]_vars

\* a latitude in [-90, 90] and a longitude in [-180, 180]
ValidCoordinates(l) ==
    /\ l.lat \in -90 * Deg .. 90 * Deg
    /\ l.lon \in -180 * Deg .. 180 * Deg

\* C27: malformed input is not propagated.  Observing a focus request whose
\* coordinates are out of range starts no animation and leaves the camera
\* pose as it was (so the frames that follow keep the last valid pose).
C27_InvalidInputHeld ==
    [][ /\ "focus" \in g'.sig
        /\ ~ValidCoordinates(focusLocation'[1])
        => /\ AnimationState' = AnimationState
           /\ CamPose' = CamPose ]_vars

\* C28: first-focus save.  A non-duplicate focus request observed with
\* nothing selected saves the current pose, before its animation starts, when
\* it is the first such request since the restore token last changed (no
\* search session is open), and does not save when it is a later one.
C28_FirstFocusSaves ==
    [][ /\ g'.sig = {"focus"}
        /\ selectedEntity' = NoSelection
        /\ FocusAccepted(c, focusLocation')
        => IF g.searching
           THEN g'.log = <<"start:focus">>
           ELSE /\ g'.log = <<"save:focus", "start:focus">>
                /\ SavedSlot' = <<c.position, c.target>> ]_vars

\* a focus request, observed alone, has started an animation in this step
FocusStarted == g'.sig = {"focus"} /\ g'.log \in {<<"start:focus">>, <<"save:focus", "start:focus">>}

\* C29: focus is a distance-preserving pan.  The animation started by an
\* accepted focus request is not returning; its target position is as far
\* from the centre as the camera was when the request was observed (to within
\* 0.005) and lies in the direction of the requested latitude and longitude;
\* its target lookAt is the centre.
C29_FocusPan ==
    [][ FocusStarted
        => /\ c'.isAnimating /\ ~c'.isReturningToEarth /\ c'.animationProgress = 0
           /\ Abs(Length(c'.targetCameraPos) - Length(c.position)) <= 5
           /\ SameDirection(c'.targetCameraPos,
                            latLonToVector3(focusLocation'[1].lat, focusLocation'[1].lon,
                                            focusLocation'[1].alt))
           /\ c'.targetLookAt = Zero ]_vars

\* C29 happens: a focus animation has started from a camera that is nearer
\* than the bootstrap distance and not above the requested location
C29_Witness ==
    /\ g.sig = {"focus"}
    /\ "start:focus" \in Entries(g.log)
    /\ c.isAnimating /\ ~c.isReturningToEarth
    /\ Length(c.position) < CITY_ZOOM_DISTANCE - 20
    /\ ~SameDirection(c.position, c.targetCameraPos)

\* C30: restore is edge-triggered and consumed once.  A render that observes
\* a change of the restore token records it and leaves the first-focus flag
\* and the remembered focus location cleared, whatever is selected; observed
\* while an entity is selected it starts no return; and a step that leaves the
\* token unchanged (a later deselection included) starts no restore return
\* and records nothing.
C30_RestoreOnce ==
    [][ /\ restoreCameraFlag' # restoreCameraFlag
           => /\ c'.prevRestoreFlag = restoreCameraFlag'
              /\ ~c'.hasSavedForFocus
              /\ c'.prevFocusLocation = <<>>
        /\ restoreCameraFlag' # restoreCameraFlag /\ selectedEntity' # NoSelection
           => "return:restore" \notin Entries(g'.log)
        /\ restoreCameraFlag' = restoreCameraFlag
           => /\ "return:restore" \notin Entries(g'.log)
              /\ c'.prevRestoreFlag = c.prevRestoreFlag ]_vars

\* C30 happens: the restore was observed together with the selection, and the
\* selection has just been cleared with the token unchanged
C30_Witness ==
    /\ events = 2
    /\ g.sig = {"deselect"}
    /\ restoreCameraFlag = 1
    /\ c.prevRestoreFlag = 1
    /\ "return:restore" \notin Entries(g.log)

\* C31: data loading waits for the gate.  fetchAirports() is never called in
\* a state where locationReady is false, and once locationReady is true it
\* is called.
C31_FetchAfterGate ==
    /\ [][ airportsLayer'.fetchAirports # airportsLayer.fetchAirports
           => locationReady ]_vars
    /\ (locationReady ~> airportsLayer.fetchAirports > 0)

\* C31 happens: the gate has opened and the layer's effect has issued the
\* fetch
C31_Witness ==
    /\ locationReady
    /\ airportsLayer.mounted
    /\ airportsLayer.locationReady
    /\ airportsLayer.fetchAirports = 1

\* C32: returning implies animating.  In every state isReturningToEarth is
\* true only while isAnimating is; a step that sets isReturningToEarth starts
\* an animation (progress 0), and the step that clears isAnimating leaves
\* isReturningToEarth false.
C32_ReturningImpliesAnimating ==
    /\ [](c.isReturningToEarth => c.isAnimating)
    /\ [][ /\ ~c.isReturningToEarth /\ c'.isReturningToEarth
              => c'.isAnimating /\ c'.animationProgress = 0
           /\ c.isAnimating /\ ~c'.isAnimating => ~c'.isReturningToEarth ]_vars

\* C32 happens: after a restore, an animation has completed at the saved pose
C32_Witness ==
    /\ g.sig = {}
    /\ ~c.isAnimating /\ ~c.isReturningToEarth
    /\ c.animationProgress >= ProgDen
    /\ CamPose = TargetPose
    /\ SavedSlot = <<c.position, c.target>>
    /\ selectedEntity = NoSelection
    /\ restoreCameraFlag > 0

\* the selected aircraft, the one that was selected when the present focus
\* request was observed, is deselected and nothing else changes
DeselectsWithFocusPending ==
    /\ g'.sig = {"deselect"}
    /\ selectedEntity.type = "aircraft"
    /\ g.focusSelectedId = selectedEntity.id
    /\ focusLocation # <<>>

\* C33: a focus request observed while an aircraft is selected is consumed.
\* When that aircraft is deselected with the request still present, the focus
\* effect neither saves a pose nor starts an animation, and the animation in
\* flight is the deselection's return.
C33_FocusConsumed ==
    [][ DeselectsWithFocusPending
        => /\ Entries(g'.log) \cap {"save:focus", "start:focus"} = {}
           /\ c'.isAnimating /\ c'.isReturningToEarth
           /\ SavedSlot' = SavedSlot ]_vars

\* the first focus request since the restore token last changed is observed,
\* alone and with nothing selected, and repeats the coordinates of the
\* request before it
RefocusAfterRestore ==
    /\ g'.sig = {"focus"}
    /\ selectedEntity' = NoSelection
    /\ restoreCameraFlag > 0
    /\ ~g.focusSinceRestore
    /\ focusLocation # <<>>
    /\ focusLocation'[1].lat = focusLocation[1].lat
    /\ focusLocation'[1].lon = focusLocation[1].lon

\* C34: a restore clears the focus dedupe memory.  After a restore, the first
\* focus request, observed with nothing selected and with the coordinates of
\* the last one, is treated as new: it saves the current pose and starts an
\* animation.
C34_RestoreClearsDedupe ==
    [][ RefocusAfterRestore
        => /\ g'.log = <<"save:focus", "start:focus">>
           /\ SavedSlot' = <<c.position, c.target>>
           /\ c'.isAnimating /\ ~c'.isReturningToEarth ]_vars

\* a keyup event of Shift, outside the text inputs
ShiftReleased ==
    /\ "Shift" \in keyboard.down
    /\ "Shift" \notin keyboard'.down
    /\ keyboard'.target = "page"

\* C35: snap toggle.  A Shift key-up (outside a text input) dispatches
\* snap_toggle exactly when no non-modifier key went down while Shift was held
\* and neither Ctrl nor Alt is held; and after it shiftUsedWithOtherKey is
\* false.
C35_SnapToggle ==
    [][ ShiftReleased
        => /\ "snap_toggle" \in Entries(dispatched')
                <=> /\ ~keyboard.otherWithShift
                    /\ keyboard.down \cap {"Control", "Alt"} = {}
           /\ ~inputManager'.shiftUsedWithOtherKey ]_vars

\* a keyup event of Tab, after a press made outside the text inputs with no
\* modifier held
TabReleased ==
    /\ "Tab" \in keyboard.down
    /\ "Tab" \notin keyboard'.down
    /\ keyboard.tabArmed

\* C36: Tab tap or hold.  From the press of Tab to its release the filter
\* actions dispatched are exactly one filter_cycle, or exactly one
\* filter_menu_open followed, on the release, by one filter_menu_close;
\* whatever other keys and focus changes come in between.
C36_TabTapOrHold ==
    /\ [](keyboard.tabArmed /\ "Tab" \in keyboard.down
            => keyboard.tabOut \in {<<>>, <<"filter_menu_open">>})
    /\ [][ TabReleased
           => keyboard'.tabOut \in {<<"filter_cycle">>,
                                    <<"filter_menu_open", "filter_menu_close">>} ]_vars

\* C37: the polled state mirrors the keyboard.  Whenever every key that was
\* pressed has been released, all the flags of InputState are false.
C37_StateMirrorsKeyboard ==
    keyboard.down = {} => \A f \in DOMAIN inputManager.state : ~inputManager.state[f]

\* C38: the LOD fade is bounded and does not overshoot.  After every call of
\* updateLODState (visibility in [0, 1], delta >= 0) currentOpacity is in
\* [0, 1] and lies between its value before the call and the target, having
\* moved at most a quarter of the gap; the target is 1 for a highlighted
\* object and the view visibility otherwise; shouldRender is true exactly when
\* currentOpacity > 0.01; and the first call starts from opacity 0.
C38_LODBounded ==
    [][ lod'.calls = lod.calls + 1
        => LET prev == lod.state.currentOpacity
               cur  == lod'.state.currentOpacity
               tgt  == lod'.state.targetOpacity
           IN  /\ cur \in 0 .. OpScale
               /\ Min(prev, tgt) <= cur /\ cur <= Max(prev, tgt)
               /\ 4 * Abs(cur - prev) <= Abs(tgt - prev) + 2
               /\ tgt = IF lod'.args.isHighlighted THEN OpScale
                         ELSE lod'.args.viewVisibility
               /\ lod'.result.shouldRender <=> cur > OpScale \div 100
               /\ lod'.result.opacity = cur
               /\ lod.calls = 0 => prev = 0 /\ lod'.state.hasAppeared ]_vars

\* C38 happens: after a stalled frame a half-visible object has faded a
\* quarter of the way in and is rendered
C38_Witness ==
    /\ lod.calls = 1
    /\ lod.args = [viewVisibility |-> 5000, delta |-> 1000, isHighlighted |-> FALSE]
    /\ lod.state.currentOpacity = 1250
    /\ lod.result.shouldRender

\* C39: loading progress is honest.  While the overlay renders with
\* locationReady false the displayed progress never decreases and never
\* exceeds 99; it is 100 exactly when the overlay renders with locationReady
\* true; and no intro phase is set while the store's locationReady is false.
C39_ProgressHonest ==
    /\ [](~overlay.locationReady => overlay.displayProgress <= 99)
    /\ [](overlay.displayProgress = 100 <=> overlay.locationReady)
    /\ [](overlay.introPhases # <<>> => locationReady)
    /\ [][ ~overlay'.locationReady
           => overlay'.displayProgress >= overlay.displayProgress ]_vars

\* C39 happens: the location became ready with the progress part of the way,
\* 100 is displayed and all four intro phases have been set
C39_Witness ==
    /\ overlay.locationReady
    /\ overlay.progress \in 1 .. 98
    /\ overlay.displayProgress = 100
    /\ overlay.introPhases = IntroPhases


=============================================================================
